---- MODULE Spec2Model ----
(***************************************************************************)
(* ProctorForge server: trust accounting of an exam attempt.               *)
(*                                                                         *)
(* Spec       the monitoring and attempt routers running as concurrent     *)
(*            request handlers over one database.  A handler runs from its *)
(*            query of the Attempt row to the await of its flush in one    *)
(*            step and is committed by get_db in a second step; what it    *)
(*            computes before the query touches only its own locals.       *)
(* SpecTrust  the pure functions of services/trust_score.py applied to a   *)
(*            six-dimension score vector.                                  *)
(* SpecSign   sign_event and verify_event of utils/hmac.py.                *)
(* SpecHub    the websocket endpoints and their ConnectionManager, a step  *)
(*            for each await of a broadcast.                               *)
(* SpecManager  the methods of ConnectionManager called in any order.      *)
(* SpecSandbox  one execute_code call of services/sandbox.py with the      *)
(*            processes it starts, or one run_test_cases call.             *)
(*                                                                         *)
(* Units: scores and penalties in hundredths of a point (100.0 = 10000),   *)
(* confidences in tenths (1.0 = 10), time in hundredths of a second.       *)
(***************************************************************************)
EXTENDS Integers, Sequences, FiniteSets, Bags, TLC

VARIABLES attempts, events, heartbeats, session_states, now, reqs, last, nreq,
          serial_score, scores, computed, last_penalty, napplied,
          payload, signature, candidate, verified,
          channels, user_map, conns, inbound, sends,
          run, procs, grade

vars == <<attempts, events, heartbeats, session_states, now, reqs, last, nreq,
          serial_score, scores, computed, last_penalty, napplied,
          payload, signature, candidate, verified,
          channels, user_map, conns, inbound, sends,
          run, procs, grade>>

dbVars    == <<attempts, events, heartbeats, session_states, now, reqs, last, nreq, serial_score>>
trustVars == <<scores, computed, last_penalty, napplied>>
signVars  == <<payload, signature, candidate, verified>>
hubVars   == <<channels, user_map, conns, inbound, sends>>
boxVars   == <<run, procs, grade>>

(* ------------------------------ bounds --------------------------------- *)
MaxRequests == 2
MaxTicks == 1
MaxPenalties == 2
MaxSockets == 3
MaxMessages == 1
MaxFaults == 1
MaxCases == 2

(* ---------------------------- constants -------------------------------- *)
Scale == 100
HEARTBEAT_TOLERANCE == 10
TimeScale == 100
DefaultTrustScore == 100

None == "None"
NoBeat == -1

Max(a, b) == IF a >= b THEN a ELSE b
Min(a, b) == IF a <= b THEN a ELSE b

(* ------------------------ users, exams, attempts ----------------------- *)
Users == {"s1", "s2", "t1"}
Students == {"s1", "s2"}
Role(u) == IF u \in Students THEN "student" ELSE "teacher"
Exams == {"e1"}
AttemptIds == 1..3
Slots == 1..2

\* ExamAssignment rows: both students are assigned to the exam.
Assigned(u, e) == u \in Students /\ e \in Exams

NoAttempt ==
  [exists |-> FALSE, user_id |-> None, exam_id |-> None, status |-> None,
   trust_score |-> 0, risk_level |-> None, end_time |-> NoBeat]

NewAttempt(u, e) ==
  [exists |-> TRUE, user_id |-> u, exam_id |-> e, status |-> "active",
   trust_score |-> DefaultTrustScore * Scale, risk_level |-> "low", end_time |-> NoBeat]

(* --------------------- services/trust_score.py ------------------------- *)
Dimensions == {"behavior_stability", "typing_consistency", "coding_authenticity",
               "identity_stability", "environment_integrity", "intervention_performance"}

\* weights in hundredths
weights ==
  [behavior_stability |-> 20, typing_consistency |-> 15, coding_authenticity |-> 20,
   identity_stability |-> 20, environment_integrity |-> 10, intervention_performance |-> 15]

RECURSIVE SumOver(_, _)
SumOver(f, S) ==
  IF S = {} THEN 0
  ELSE LET k == CHOOSE x \in S : TRUE IN f[k] + SumOver(f, S \ {k})

\* round(x, 2) of a value held in units of 1e-4: nearest hundredth
Round2(x) == (x + 50) \div 100

RiskTier(overall, unit) ==
  IF overall >= 80 * unit THEN "low"
  ELSE IF overall >= 60 * unit THEN "medium"
  ELSE IF overall >= 40 * unit THEN "high"
  ELSE "critical"

ClampDim(d) == Max(0, Min(100 * Scale, d))

compute_trust_score(dims) ==
  LET clamped  == [k \in Dimensions |-> ClampDim(dims[k])]
      weighted == [k \in Dimensions |-> clamped[k] * weights[k]]
      overall  == SumOver(weighted, Dimensions)      \* units of 1e-4
  IN [overall |-> Round2(overall), exact |-> overall, scores |-> clamped,
      risk_level |-> RiskTier(overall, Scale * 100)]

penalties ==
  [tab_switch |-> <<"behavior_stability", 5>>,
   window_blur |-> <<"behavior_stability", 3>>,
   devtools_open |-> <<"behavior_stability", 15>>,
   copy_paste |-> <<"behavior_stability", 8>>,
   clipboard_attempt |-> <<"behavior_stability", 5>>,
   fullscreen_exit |-> <<"environment_integrity", 10>>,
   gaze_deviation |-> <<"identity_stability", 3>>,
   face_missing |-> <<"identity_stability", 10>>,
   multi_face |-> <<"identity_stability", 15>>,
   voice_mismatch |-> <<"identity_stability", 10>>,
   typing_anomaly |-> <<"typing_consistency", 8>>,
   paste_detected |-> <<"typing_consistency", 10>>,
   burst_typing |-> <<"typing_consistency", 5>>,
   high_wpm |-> <<"typing_consistency", 7>>,
   code_entropy_anomaly |-> <<"coding_authenticity", 10>>,
   large_paste |-> <<"coding_authenticity", 12>>,
   idle_timeout |-> <<"behavior_stability", 3>>]

\* Python values that reach apply_violation_penalty carry their type.
PyStr(s)   == [t |-> "str", v |-> s]
PyFloat(n) == [t |-> "float", v |-> n]
PyDict(d)  == [t |-> "dict", v |-> d]

\* the penalised dimension is not clamped at 0
apply_violation_penalty_unclamped(current_scores, event_type) ==
  IF event_type.t = "str" /\ event_type.v \in DOMAIN penalties
  THEN LET dimension == penalties[event_type.v][1]
           amount    == penalties[event_type.v][2] * Scale
       IN PyDict([current_scores.v EXCEPT ![dimension] = @ - amount])
  ELSE current_scores

apply_violation_penalty(current_scores, event_type) ==
  IF event_type.t = "str" /\ event_type.v \in DOMAIN penalties
  THEN LET dimension == penalties[event_type.v][1]
           amount    == penalties[event_type.v][2] * Scale
       IN PyDict([current_scores.v EXCEPT ![dimension] = Max(0, @ - amount)])
  ELSE current_scores

flat_penalties ==
  [tab_switch |-> 5, window_blur |-> 3, devtools_open |-> 15, devtools_attempt |-> 10,
   copy_paste |-> 8, clipboard_attempt |-> 5, paste_detected |-> 10,
   fullscreen_exit |-> 10, gaze_deviation |-> 3, face_missing |-> 10,
   camera_face_missing |-> 10, multi_face |-> 15, camera_multi_face |-> 15,
   voice_mismatch |-> 10, audio_multiple_voices |-> 12, typing_anomaly |-> 8,
   burst_typing |-> 5, high_wpm |-> 7, code_entropy_anomaly |-> 10,
   large_paste |-> 12, idle_timeout |-> 3]

get_violation_penalty(event_type) ==
  IF event_type \in DOMAIN flat_penalties THEN flat_penalties[event_type] * Scale
  ELSE 2 * Scale

(* ------------------------------ hmac.py -------------------------------- *)
\* A JSON value is a record of its kind and its text; a dict is the sequence of
\* its <<key, value>> items in insertion order, and Optional[dict] adds None.
JStr(s) == [kind |-> "str", text |-> s]
JNum(n) == [kind |-> "num", text |-> ToString(n)]
JNull   == [kind |-> "null", text |-> ""]

\* repr of a float held in tenths (0.5, 1.0) and in hundredths (10.0, 10.04)
Decimal1(c) == ToString(c \div 10) \o "." \o ToString(c % 10)
Decimal2(g) ==
  ToString(g \div 100) \o "." \o
    (IF g % 10 = 0 THEN ToString((g % 100) \div 10)
     ELSE ToString((g % 100) \div 10) \o ToString(g % 10))
JFloat(text) == [kind |-> "num", text |-> text]

Dict(items) == [none |-> FALSE, items |-> items]
NoneDict    == [none |-> TRUE, items |-> <<>>]
\* truth value of an Optional[dict]: None and {} are false
Truthy(d) == ~d.none /\ Len(d.items) > 0

Keys(d) == {d.items[i][1] : i \in 1..Len(d.items)}
Get(d, k) == d.items[CHOOSE i \in 1..Len(d.items) : d.items[i][1] = k][2]

\* the keys the model uses, in the order sort_keys puts them
SortedKeys == <<"a", "attempt", "b", "confidence", "details", "face_count",
                "gap_seconds", "gaze", "head_pose", "type", "voice_count",
                "volume_level">>

\* json.dumps of one value: a string is quoted, a number and null are bare
Encode(v) == IF v.kind = "str" THEN "\"" \o v.text \o "\""
             ELSE IF v.kind = "null" THEN "null"
             ELSE v.text

RECURSIVE JoinItems(_, _)
JoinItems(d, ks) ==
  IF ks = <<>> THEN ""
  ELSE "\"" \o Head(ks) \o "\": " \o Encode(Get(d, Head(ks))) \o
       (IF Len(ks) > 1 THEN ", " ELSE "") \o JoinItems(d, Tail(ks))

\* the items are written in insertion order
json_dumps_unsorted(d) ==
  IF d.none THEN "null"
  ELSE "{" \o JoinItems(d, [i \in 1..Len(d.items) |-> d.items[i][1]]) \o "}"

\* json.dumps(event_data, sort_keys=True, default=str)
json_dumps(d) ==
  IF d.none THEN "null"
  ELSE "{" \o JoinItems(d, SelectSeq(SortedKeys, LAMBDA k : k \in Keys(d))) \o "}"

HMAC_SECRET_KEY == "change-me"

\* hmac.new(key, msg, sha256).hexdigest(): the digest is taken to be free of
\* collisions, so it is written as the term that names its key and message
hmac_sha256(key, msg) == "hmac-sha256(" \o key \o ", " \o msg \o ")"

sign_event(event_data) == hmac_sha256(HMAC_SECRET_KEY, json_dumps(event_data))

\* hmac.compare_digest(expected, signature)
verify_event(event_data, sig) == sign_event(event_data) = sig

(* ------------------------ request-handler state ------------------------ *)
NoState == [exists |-> FALSE, paused |-> FALSE, violations |-> 0]

NoReq ==
  [kind |-> "idle", pc |-> "idle", user |-> None, attempt |-> 0, exam |-> None,
   etype |-> None, conf |-> 0, had_last |-> FALSE, gap |-> 0,
   violations |-> <<>>, pending |-> EmptyBag, found |-> FALSE,
   seen_score |-> 0, new_score |-> 0, seen_risk |-> None, new_risk |-> None,
   seen_status |-> None, new_status |-> None, seen_end |-> NoBeat, new_end |-> NoBeat,
   insert |-> FALSE, penalty |-> 0, applied |-> FALSE,
   status |-> None, resp_gap |-> 0, resp_paused |-> FALSE, resp_attempt |-> 0,
   event_data |-> NoneDict, hmac_signature |-> None]

Event(a, etype, data, confidence, sig) ==
  [attempt_id |-> a, event_type |-> etype, event_data |-> data,
   confidence_score |-> confidence, hmac_signature |-> sig]

\* event_data of the heartbeat_gap, camera and audio events; the behavior
\* event stores data.details or {}, and details is absent in the requests
gap_data(gap_seconds) == Dict(<<<<"gap_seconds", JFloat(Decimal2(gap_seconds))>>>>)
camera_data(confidence) ==
  Dict(<<<<"face_count", JNum(1)>>, <<"confidence", JFloat(Decimal1(confidence))>>,
         <<"gaze", JNull>>, <<"head_pose", JNull>>, <<"details", JNull>>>>)
audio_data(confidence) ==
  Dict(<<<<"volume_level", JFloat("0.0")>>, <<"voice_count", JNum(0)>>,
         <<"confidence", JFloat(Decimal1(confidence))>>, <<"details", JNull>>>>)
\* sign_event({"type": data.event_type, "attempt": str(data.attempt_id)})
event_signature(event_type, a) ==
  sign_event(Dict(<<<<"type", JStr(event_type)>>, <<"attempt", JStr(ToString(a))>>>>))

\* round(gap_seconds, 1): hundredths of a second to tenths
Round1(g) == (g + 5) \div 10

(* ----------------------------- input sets ------------------------------ *)
Confidences == {5, 10, 40}
CameraTypes == {"multi_face", "face_detected", "sneeze"}
AudioTypes == {"multiple_voices", "silence", "cough"}
BehaviorTypes == {"devtools_open", "yawn"}
\* battery_level in percent (NoLevel: absent), battery_charging None/True/False
NoLevel == -1
NoBattery == [level |-> NoLevel, charging |-> "None"]
BatteryInputs == {NoBattery, [level |-> 10, charging |-> "False"]}
TickSteps == {1000, 1004}
\* the owner on the attempt, another student on it, a student on an attempt
\* id that may not exist
Callers == {<<"s1", 1>>, <<"s2", 1>>, <<"s1", 2>>}

\* a new request takes the first free handler slot
CanBegin(r) ==
  /\ reqs[r].pc = "idle"
  /\ nreq < MaxRequests
  /\ \A j \in Slots : j < r => reqs[j].pc # "idle"

\* a finished request leaves its slot; its record is kept as the last response
Put(r, rec) ==
  IF rec.pc = "done"
  THEN reqs' = [reqs EXCEPT ![r] = NoReq] /\ last' = rec
  ELSE reqs' = [reqs EXCEPT ![r] = rec] /\ last' = last

(* --------------------- routers/monitoring.py: heartbeat ---------------- *)
BatteryLow(b) == b.level # NoLevel /\ b.level < 15 /\ b.charging # "True"

HeartbeatViolations(gapped, tab_visible, fullscreen, battery) ==
     (IF gapped THEN <<"heartbeat_gap">> ELSE <<>>)
  \o (IF ~tab_visible THEN <<"tab_hidden">> ELSE <<>>)
  \o (IF ~fullscreen THEN <<"fullscreen_exit">> ELSE <<>>)
  \o (IF BatteryLow(battery) THEN <<"low_battery">> ELSE <<>>)

\* lines 161-216: up to the await of the Attempt query (or of the flush when
\* no violation was detected)
receive_heartbeat(r, u, a, tab_visible, fullscreen, battery) ==
  /\ CanBegin(r)
  /\ LET last_beat   == heartbeats[a]
         had_last    == last_beat # NoBeat
         gap_seconds == IF had_last THEN now - last_beat ELSE 0
         gapped      == had_last /\ gap_seconds > HEARTBEAT_TOLERANCE * TimeScale
         violations  == HeartbeatViolations(gapped, tab_visible, fullscreen, battery)
     IN /\ heartbeats' = [heartbeats EXCEPT ![a] = now]
        /\ session_states' =
             IF session_states[a].exists THEN session_states
             ELSE [session_states EXCEPT ![a] = [NoState EXCEPT !.exists = TRUE]]
        /\ Put(r, [NoReq EXCEPT !.kind = "heartbeat", !.user = u, !.attempt = a,
                                !.had_last = had_last, !.gap = gap_seconds,
                                !.violations = violations,
                                !.pending =
                                   IF gapped
                                   THEN SetToBag({Event(a, "heartbeat_gap", gap_data(gap_seconds), 10, None)})
                                   ELSE EmptyBag,
                                !.pc = IF violations # <<>> THEN "read" ELSE "flush"])
  /\ nreq' = nreq + 1
  /\ UNCHANGED <<attempts, events, now, serial_score, trustVars, signVars, hubVars, boxVars>>

\* for v in violations: penalty = apply_violation_penalty(v["type"], attempt.trust_score)
\*                      attempt.trust_score = max(0, attempt.trust_score - penalty)
RECURSIVE HeartbeatPenaltyLoop(_, _)
HeartbeatPenaltyLoop(vs, score) ==
  IF vs = <<>> THEN [raised |-> FALSE, score |-> score]
  ELSE LET penalty == apply_violation_penalty(PyStr(Head(vs)), PyFloat(score))
       IN IF penalty.t # "float"
          THEN [raised |-> TRUE, score |-> score]      \* float - str: TypeError
          ELSE HeartbeatPenaltyLoop(Tail(vs), Max(0, score - penalty.v))

\* lines 217-224: from the result of the Attempt query to the await of the flush
heartbeat_penalties(r) ==
  /\ reqs[r].kind = "heartbeat" /\ reqs[r].pc = "read"
  /\ LET q       == reqs[r]
         attempt == attempts[q.attempt]
         owned   == attempt.exists /\ attempt.user_id = q.user
         loop    == HeartbeatPenaltyLoop(q.violations, attempt.trust_score)
     IN IF owned /\ loop.raised
        THEN \* the exception leaves the handler; get_db rolls the session back
             /\ Put(r, [q EXCEPT !.pc = "done", !.status = "error",
                                 !.found = TRUE, !.pending = EmptyBag,
                                 !.seen_status = attempt.status, !.new_status = attempt.status,
                                 !.seen_score = attempt.trust_score,
                                 !.new_score = attempt.trust_score])
             /\ UNCHANGED session_states
        ELSE IF owned
        THEN /\ Put(r, [q EXCEPT !.pc = "flush", !.found = TRUE, !.applied = TRUE,
                                 !.seen_status = attempt.status, !.new_status = attempt.status,
                                 !.seen_score = attempt.trust_score,
                                 !.new_score = loop.score,
                                 !.penalty = attempt.trust_score - loop.score])
             /\ session_states' = [session_states EXCEPT ![q.attempt].violations =
                                     @ + Len(q.violations)]
        ELSE /\ Put(r, [q EXCEPT !.pc = "flush"])
             /\ UNCHANGED session_states
  /\ UNCHANGED <<attempts, events, heartbeats, now, nreq, serial_score, trustVars, signVars, hubVars, boxVars>>

(* ------------------- routers/monitoring.py: camera --------------------- *)
camera_risk_map ==
  [face_missing |-> 8, multi_face |-> 12, gaze_deviation |-> 3, head_pose |-> 2,
   face_detected |-> 0]

CameraBasePenalty(event_type) ==
  IF event_type \in DOMAIN camera_risk_map THEN camera_risk_map[event_type] ELSE 1

\* penalty = risk_info["penalty"] * (1 - data.confidence * 0.3), in hundredths
CameraPenalty(event_type, confidence) ==
  CameraBasePenalty(event_type) * (100 - 3 * confidence)

\* lines 250-292, up to the await of the flush
receive_camera_event(r, u, a, event_type, confidence) ==
  /\ CanBegin(r)
  /\ LET q == [NoReq EXCEPT !.kind = "camera", !.user = u, !.attempt = a,
                            !.etype = event_type, !.conf = confidence, !.pc = "flush",
                            !.pending = SetToBag({Event(a, "camera_" \o event_type,
                                                        camera_data(confidence), confidence,
                                                        event_signature(event_type, a))})]
         attempt == attempts[a]
         penalty == CameraPenalty(event_type, confidence)
     IN Put(r, IF /\ CameraBasePenalty(event_type) > 0
                  /\ attempt.exists /\ attempt.user_id = u
               THEN [q EXCEPT !.found = TRUE, !.applied = TRUE,
                              !.seen_score = attempt.trust_score,
                              !.new_score = Max(0, attempt.trust_score - penalty),
                              !.seen_status = attempt.status, !.new_status = attempt.status,
                              !.penalty = penalty]
               ELSE q)
  /\ nreq' = nreq + 1
  /\ UNCHANGED <<attempts, events, heartbeats, session_states, now, serial_score, trustVars, signVars, hubVars, boxVars>>

(* ------------------- routers/monitoring.py: audio ---------------------- *)
audio_risk_map ==
  [multiple_voices |-> 10, voice_detected |-> 0, background_noise |-> 1, silence |-> 0]

AudioPenalty(event_type) ==
  IF event_type \in DOMAIN audio_risk_map THEN audio_risk_map[event_type] * Scale ELSE 0

\* lines 315-346, up to the await of the flush
receive_audio_event(r, u, a, event_type, confidence) ==
  /\ CanBegin(r)
  /\ LET q == [NoReq EXCEPT !.kind = "audio", !.user = u, !.attempt = a,
                            !.etype = event_type, !.conf = confidence, !.pc = "flush",
                            !.pending = SetToBag({Event(a, "audio_" \o event_type,
                                                        audio_data(confidence), confidence, None)})]
         attempt == attempts[a]
         penalty == AudioPenalty(event_type)
     IN Put(r, IF penalty > 0 /\ attempt.exists /\ attempt.user_id = u
               THEN [q EXCEPT !.found = TRUE, !.applied = TRUE,
                              !.seen_score = attempt.trust_score,
                              !.new_score = Max(0, attempt.trust_score - penalty),
                              !.seen_status = attempt.status, !.new_status = attempt.status,
                              !.penalty = penalty]
               ELSE q)
  /\ nreq' = nreq + 1
  /\ UNCHANGED <<attempts, events, heartbeats, session_states, now, serial_score, trustVars, signVars, hubVars, boxVars>>

(* ------------------ routers/monitoring.py: behavior -------------------- *)
behavior_risk_map ==
  [mouse_idle |-> 1, rapid_scroll |-> 2, suspicious_resize |-> 5,
   extension_detected |-> 15, devtools_open |-> 20, clipboard_paste |-> 4,
   tab_switch |-> 6, window_blur |-> 5]

BehaviorPenalty(event_type) ==
  IF event_type \in DOMAIN behavior_risk_map THEN behavior_risk_map[event_type] * Scale
  ELSE 1 * Scale

\* the handler's own tiering of attempt.trust_score (lines 398-405)
BehaviorRiskLevel(trust_score) ==
  IF trust_score < 40 * Scale THEN "critical"
  ELSE IF trust_score < 60 * Scale THEN "high"
  ELSE IF trust_score < 80 * Scale THEN "medium"
  ELSE "low"

\* lines 368-407, up to the await of the flush
receive_behavior_event(r, u, a, event_type, confidence) ==
  /\ CanBegin(r)
  /\ LET q == [NoReq EXCEPT !.kind = "behavior", !.user = u, !.attempt = a,
                            !.etype = event_type, !.conf = confidence, !.pc = "flush",
                            !.pending = SetToBag({Event(a, "behavior_" \o event_type,
                                                        Dict(<<>>), confidence,
                                                        event_signature(event_type, a))})]
         attempt   == attempts[a]
         penalty   == BehaviorPenalty(event_type)
         new_score == Max(0, attempt.trust_score - penalty)
     IN Put(r, IF attempt.exists /\ attempt.user_id = u /\ penalty > 0
               THEN [q EXCEPT !.found = TRUE, !.applied = TRUE,
                              !.seen_score = attempt.trust_score, !.new_score = new_score,
                              !.seen_risk = attempt.risk_level,
                              !.new_risk = BehaviorRiskLevel(new_score),
                              !.seen_status = attempt.status, !.new_status = attempt.status,
                              !.penalty = penalty]
               ELSE q)
  /\ nreq' = nreq + 1
  /\ UNCHANGED <<attempts, events, heartbeats, session_states, now, serial_score, trustVars, signVars, hubVars, boxVars>>

(* -------------------- routers/attempts.py: create ---------------------- *)
ActiveAttempts(u, e) ==
  {i \in AttemptIds : /\ attempts[i].exists
                      /\ attempts[i].user_id = u
                      /\ attempts[i].exam_id = e
                      /\ attempts[i].status = "active"}

FreeIds == {i \in AttemptIds : ~attempts[i].exists}
Inserting == {r \in Slots : reqs[r].kind = "create" /\ reqs[r].insert}

\* lines 38-97, up to the await of the flush; scalar_one_or_none() raises
\* when several rows match
create_attempt(r, u, e) ==
  /\ CanBegin(r)
  /\ Cardinality(Inserting) < Cardinality(FreeIds)
  /\ LET q        == [NoReq EXCEPT !.kind = "create", !.user = u, !.exam = e]
         existing == ActiveAttempts(u, e)
     IN Put(r, IF Role(u) # "student" \/ ~Assigned(u, e)
               THEN [q EXCEPT !.pc = "done", !.status = "error"]
               ELSE IF Cardinality(existing) > 1
               THEN [q EXCEPT !.pc = "done", !.status = "error"]
               ELSE IF existing # {}
               THEN [q EXCEPT !.pc = "flush", !.resp_attempt = CHOOSE i \in existing : TRUE]
               ELSE [q EXCEPT !.pc = "flush", !.insert = TRUE])
  /\ nreq' = nreq + 1
  /\ UNCHANGED <<attempts, events, heartbeats, session_states, now, serial_score, trustVars, signVars, hubVars, boxVars>>

(* ---------------------- routers/attempts.py: end ----------------------- *)
\* lines 127-137; the handler returns and get_db commits
end_attempt(r, u, a) ==
  /\ CanBegin(r)
  /\ LET q       == [NoReq EXCEPT !.kind = "end", !.user = u, !.attempt = a]
         attempt == attempts[a]
     IN Put(r, IF ~attempt.exists \/ (Role(u) = "student" /\ attempt.user_id # u)
               THEN [q EXCEPT !.pc = "done", !.status = "error"]
               ELSE [q EXCEPT !.pc = "flush", !.found = TRUE,
                              !.seen_score = attempt.trust_score,
                              !.new_score = attempt.trust_score,
                              !.seen_status = attempt.status, !.new_status = "completed",
                              !.seen_end = attempt.end_time, !.new_end = now])
  /\ nreq' = nreq + 1
  /\ UNCHANGED <<attempts, events, heartbeats, session_states, now, serial_score, trustVars, signVars, hubVars, boxVars>>

(* ------------------- routers/attempts.py: log_event -------------------- *)
\* event_data None, {} and a one-item dict; hmac_signature None, a forged
\* string and the signature of the event_data
LogPayloads == {NoneDict, Dict(<<>>), Dict(<<<<"a", JStr("x")>>>>)}
LogSignatures(d) == {None, "forged", sign_event(d)}

\* lines 142-164: the signature is verified only when both hmac_signature and
\* event_data are true values; the Event is added and flushed
log_event(r, u, a, event_type, data, confidence, sig) ==
  /\ CanBegin(r)
  /\ LET q == [NoReq EXCEPT !.kind = "log_event", !.user = u, !.attempt = a,
                            !.etype = event_type, !.conf = confidence,
                            !.event_data = data, !.hmac_signature = sig]
     IN Put(r, IF sig # None /\ Truthy(data) /\ ~verify_event(data, sig)
               THEN [q EXCEPT !.pc = "done", !.status = "error"]
               ELSE [q EXCEPT !.pc = "flush",
                              !.pending = SetToBag({Event(a, event_type, data, confidence, sig)})])
  /\ nreq' = nreq + 1
  /\ UNCHANGED <<attempts, events, heartbeats, session_states, now, serial_score, trustVars, signVars, hubVars, boxVars>>

(* --------------- database.py: flush, return and commit ----------------- *)
\* Every request has its own session (get_db): a query returns the committed
\* row (seen_score, seen_risk, seen_status and seen_end are the columns of the
\* row as loaded), and the commit writes the columns whose value the handler
\* changed.
\* The handlers take no lock and check no row version.
Flushed(row, q) ==
  [row EXCEPT !.trust_score = IF q.new_score # q.seen_score THEN q.new_score ELSE @,
              !.risk_level  = IF q.new_risk # q.seen_risk THEN q.new_risk ELSE @,
              !.status      = IF q.new_status # q.seen_status THEN q.new_status ELSE @,
              !.end_time    = IF q.new_end # q.seen_end THEN q.new_end ELSE @]

Commit(r) ==
  /\ reqs[r].pc = "flush"
  /\ LET q      == reqs[r]
         new_id == CHOOSE i \in FreeIds : \A j \in FreeIds : i <= j
     IN /\ events' = events (+) q.pending
        /\ attempts' =
             IF q.insert THEN [attempts EXCEPT ![new_id] = NewAttempt(q.user, q.exam)]
             ELSE IF q.found THEN [attempts EXCEPT ![q.attempt] = Flushed(@, q)]
             ELSE attempts
        /\ serial_score' =
             IF q.applied THEN [serial_score EXCEPT ![q.attempt] = Max(0, @ - q.penalty)]
             ELSE serial_score
        /\ Put(r, [q EXCEPT !.pc = "done", !.status = "ok",
                            !.resp_gap = IF q.had_last THEN Round1(q.gap) ELSE 0,
                            !.resp_paused = IF q.kind = "heartbeat"
                                            THEN session_states[q.attempt].paused
                                            ELSE FALSE,
                            !.resp_attempt = IF q.insert THEN new_id ELSE q.resp_attempt])
  /\ UNCHANGED <<heartbeats, session_states, now, nreq, trustVars, signVars, hubVars, boxVars>>

(* ------------------------------- clock --------------------------------- *)
Tick(d) ==
  /\ now + d <= MaxTicks * 1004
  /\ now' = now + d
  /\ UNCHANGED <<attempts, events, heartbeats, session_states, reqs, last, nreq,
                 serial_score, trustVars, signVars, hubVars, boxVars>>

(* ------------------------- trust-score service ------------------------- *)
InitDims == {4, 100 * Scale}
PenaltyEventTypes == DOMAIN penalties \cup {"unknown_event"}
FlatEventTypes == {"devtools_attempt", "tab_switch", "unknown_event"}
NoResult == [valid |-> FALSE, overall |-> 0, exact |-> 0,
             scores |-> [k \in Dimensions |-> 0], risk_level |-> None]

ApplyViolationPenalty(event_type) ==
  /\ napplied < MaxPenalties
  /\ scores' = apply_violation_penalty(PyDict(scores), PyStr(event_type)).v
  /\ napplied' = napplied + 1
  /\ UNCHANGED <<computed, last_penalty, dbVars, signVars, hubVars, boxVars>>

ComputeTrustScore ==
  /\ LET result == compute_trust_score(scores)
     IN computed' = [valid |-> TRUE, overall |-> result.overall, exact |-> result.exact,
                     scores |-> result.scores, risk_level |-> result.risk_level]
  /\ UNCHANGED <<scores, last_penalty, napplied, dbVars, signVars, hubVars, boxVars>>

GetViolationPenalty(event_type) ==
  /\ last_penalty' = get_violation_penalty(event_type)
  /\ UNCHANGED <<scores, computed, napplied, dbVars, signVars, hubVars, boxVars>>

(* ------------- routers/websocket.py: ConnectionManager ----------------- *)
\* A WebSocket object is named by its order of arrival.
Sockets == 1..MaxSockets

NoInfo == [user_id |-> None, role |-> None, session_type |-> None, session_id |-> None]
\* the iteration `for ws in self.channels[channel]` of one send_to_channel call:
\* `used` is the size of the set when the iteration began, `orphan` tells that
\* the set it iterates has been emptied and its key deleted
NoIter == [active |-> FALSE, channel |-> None, type |-> None, used |-> 0,
           visited |-> {}, dead |-> {}, orphan |-> FALSE]
\* one invocation of websocket_endpoint: pc is "new" before the connection,
\* "receive" at receive_json, "send" inside the send_to_channel calls of one
\* branch, "blocked" at a send_json that never returns, "raised" after an
\* exception left the endpoint and "closed" after the endpoint returned
NoConn == [pc |-> "new", info |-> NoInfo, transport |-> "open", todo |-> <<>>,
           it |-> NoIter, msg |-> 0, after |-> None]

\* f"{session_type}:{session_id}"
ChannelOf(session_type, session_id) == session_type \o ":" \o session_id

\* connect, lines 28-30: the set is created if absent and the socket added
Join(ch, ws, channel) ==
  [c \in DOMAIN ch \cup {channel} |->
     IF c = channel THEN (IF c \in DOMAIN ch THEN ch[c] ELSE {}) \cup {ws} ELSE ch[c]]

\* disconnect, lines 34-37: discard, and delete the key of an emptied set
Leave(ch, ws, channel) ==
  IF channel \notin DOMAIN ch THEN ch
  ELSE IF ch[channel] \ {ws} = {} THEN [c \in DOMAIN ch \ {channel} |-> ch[c]]
  ELSE [ch EXCEPT ![channel] = @ \ {ws}]

\* user_map[websocket] = user_info and user_map.pop(websocket, None)
SetInfo(um, ws, info) == [w \in DOMAIN um \cup {ws} |-> IF w = ws THEN info ELSE um[w]]
PopInfo(um, ws) == [w \in DOMAIN um \ {ws} |-> um[w]]

\* an iteration over a set whose key has been deleted holds an emptied set
Orphaned(cs, ch_old, ch_new) ==
  [w \in Sockets |->
     IF cs[w].it.active /\ cs[w].it.channel \in DOMAIN ch_old \ DOMAIN ch_new
     THEN [cs[w] EXCEPT !.it.orphan = TRUE] ELSE cs[w]]

\* ConnectionManager.connect, lines 26-31, called on the manager itself
connect(ws, channel, user_info) ==
  /\ channels' = Join(channels, ws, channel)
  /\ user_map' = SetInfo(user_map, ws, user_info)
  /\ UNCHANGED <<conns, inbound, sends, dbVars, trustVars, signVars, boxVars>>

\* ConnectionManager.disconnect, lines 33-38
disconnect(ws, channel) ==
  /\ channels' = Leave(channels, ws, channel)
  /\ user_map' = PopInfo(user_map, ws)
  /\ UNCHANGED <<conns, inbound, sends, dbVars, trustVars, signVars, boxVars>>

\* get_active_sessions, lines 59-66: one entry for each member of each channel
\* that has user info
get_active_sessions ==
  {[info |-> user_map[x[2]], channel |-> x[1]] :
     x \in {y \in (DOMAIN channels) \X (DOMAIN user_map) : y[2] \in channels[y[1]]}}

(* ------------- routers/websocket.py: websocket_endpoint ---------------- *)
\* the token's sub and role, and the session_type and session_id of the path
Logins ==
  {[user_id |-> "s1", role |-> "student", session_type |-> "exam", session_id |-> "a1"],
   [user_id |-> "s2", role |-> "student", session_type |-> "exam", session_id |-> "a2"],
   [user_id |-> "t1", role |-> "teacher", session_type |-> "teacher", session_id |-> "e1"],
   [user_id |-> "ad", role |-> "admin", session_type |-> "admin", session_id |-> "global"]}

\* `inbound` lists what the endpoints have received, each with the channels as
\* they were then; `sends` holds the send_json calls made for each of them.
\* inbound JSON messages: type, exam_id (None: absent) and attempt_id
Message(type, exam_id, attempt_id) ==
  [type |-> type, exam_id |-> exam_id, attempt_id |-> attempt_id]
Messages ==
  {Message("violation_event", "e1", None), Message("violation_event", None, None),
   Message("trust_score_update", "e1", None), Message("intervention", None, "a1"),
   Message("force_pause", None, "a1"), Message("force_pause", None, "a2"),
   Message("force_terminate", None, "a1")}

Broadcast(channel, type) == [channel |-> channel, type |-> type]

\* f"teacher_feed:{data.get('exam_id', session_id)}"
FeedOf(info, m) ==
  "teacher_feed:" \o (IF m.exam_id # None THEN m.exam_id ELSE info.session_id)

\* force_terminate is also announced on admin:global
RouteAnnounced(info, m) ==
  CASE m.type = "violation_event" ->
         <<Broadcast(FeedOf(info, m), "student_violation"),
           Broadcast("admin:global", "violation_alert")>>
    [] m.type = "trust_score_update" -> <<Broadcast(FeedOf(info, m), "trust_score")>>
    [] m.type = "intervention" -> <<Broadcast("exam:" \o m.attempt_id, "intervention")>>
    [] m.type = "force_pause" -> <<Broadcast("exam:" \o m.attempt_id, "exam_paused")>>
    [] m.type = "force_terminate" ->
         <<Broadcast("exam:" \o m.attempt_id, "exam_terminated"),
           Broadcast("admin:global", "exam_terminated")>>
    [] OTHER -> <<>>

\* the send_to_channel calls of the branch taken for a message, in order
Route(info, m) ==
  CASE m.type = "violation_event" ->
         <<Broadcast(FeedOf(info, m), "student_violation"),
           Broadcast("admin:global", "violation_alert")>>
    [] m.type = "trust_score_update" -> <<Broadcast(FeedOf(info, m), "trust_score")>>
    [] m.type = "intervention" -> <<Broadcast("exam:" \o m.attempt_id, "intervention")>>
    [] m.type = "force_pause" -> <<Broadcast("exam:" \o m.attempt_id, "exam_paused")>>
    [] m.type = "force_terminate" -> <<Broadcast("exam:" \o m.attempt_id, "exam_terminated")>>
    [] OTHER -> <<>>

Received == {i \in 1..Len(inbound) : inbound[i].type # "WebSocketDisconnect"}

\* lines 86-111: manager.connect on the session's channel and, for a teacher
\* session, a second manager.connect on the teacher feed.  The second connect
\* calls accept() on a socket that is already accepted; the framework is not
\* part of the source, so the call either returns or raises.
Connect(w, login, accepted) ==
  /\ conns[w].pc = "new"
  /\ \A v \in Sockets : v < w => conns[v].pc # "new"
  /\ login.session_type = "teacher" \/ accepted
  /\ LET channel == ChannelOf(login.session_type, login.session_id)
         ch1     == Join(channels, w, channel)
     IN /\ channels' = IF login.session_type = "teacher" /\ accepted
                       THEN Join(ch1, w, "teacher_feed:" \o login.session_id)
                       ELSE ch1
        /\ user_map' = SetInfo(user_map, w, login)
        /\ conns' = [conns EXCEPT ![w] =
                       [NoConn EXCEPT !.info = login,
                                      !.pc = IF accepted THEN "receive" ELSE "raised",
                                      !.transport = IF accepted THEN "open" ELSE "closed"]]
  /\ UNCHANGED <<inbound, sends, dbVars, trustVars, signVars, boxVars>>

\* lines 115-116: receive_json returns a message and its branch is entered
Receive(w, m) ==
  /\ conns[w].pc = "receive"
  /\ conns[w].transport # "closed"
  /\ Cardinality(Received) < MaxMessages
  /\ inbound' = Append(inbound, [from |-> w, type |-> m.type, exam_id |-> m.exam_id,
                                 attempt_id |-> m.attempt_id, seen |-> channels,
                                 route |-> Route(conns[w].info, m)])
  /\ conns' = [conns EXCEPT ![w].pc = "send", ![w].todo = Route(conns[w].info, m),
                            ![w].msg = Len(inbound) + 1, ![w].after = "receive"]
  /\ UNCHANGED <<channels, user_map, sends, dbVars, trustVars, signVars, boxVars>>

\* lines 251-263: receive_json raises WebSocketDisconnect
Disconnect(w) ==
  /\ conns[w].pc = "receive"
  /\ conns[w].transport = "closed"
  /\ LET info == conns[w].info
         ch1  == Leave(channels, w, ChannelOf(info.session_type, info.session_id))
         ch2  == IF info.session_type = "teacher"
                 THEN Leave(ch1, w, "teacher_feed:" \o info.session_id) ELSE ch1
         todo == IF info.session_type = "exam"
                 THEN <<Broadcast("teacher_feed:" \o info.session_id, "student_disconnect")>>
                 ELSE <<>>
     IN /\ channels' = ch2
        /\ user_map' = PopInfo(user_map, w)
        /\ conns' = [Orphaned(conns, channels, ch2) EXCEPT ![w] =
                       [@ EXCEPT !.pc = "send", !.msg = Len(inbound) + 1,
                                 !.after = "closed", !.todo = todo]]
        /\ inbound' = Append(inbound, [from |-> w, type |-> "WebSocketDisconnect",
                                       exam_id |-> None, attempt_id |-> None,
                                       seen |-> ch2, route |-> todo])
  /\ UNCHANGED <<sends, dbVars, trustVars, signVars, boxVars>>

\* the branch has made all its send_to_channel calls: the endpoint is back at
\* receive_json, or has returned after the disconnect notification
Return(w) ==
  /\ conns[w].pc = "send"
  /\ ~conns[w].it.active
  /\ conns[w].todo = <<>>
  /\ conns' = [conns EXCEPT ![w].pc = conns[w].after]
  /\ UNCHANGED <<channels, user_map, inbound, sends, dbVars, trustVars, signVars, boxVars>>

HasMembers(channel) == channel \in DOMAIN channels /\ channels[channel] # {}

\* send_to_channel, line 42: the channel is absent (or its set is empty),
\* nothing is sent
SendToNobody(w) ==
  /\ conns[w].pc = "send"
  /\ ~conns[w].it.active
  /\ conns[w].todo # <<>>
  /\ ~HasMembers(Head(conns[w].todo).channel)
  /\ conns' = [conns EXCEPT ![w].todo = Tail(@)]
  /\ UNCHANGED <<channels, user_map, inbound, sends, dbVars, trustVars, signVars, boxVars>>

\* the iteration in progress, or the one that the next send_to_channel call
\* of the branch begins over the set as it is now
Iteration(c) ==
  IF c.it.active THEN c.it
  ELSE [NoIter EXCEPT !.active = TRUE, !.channel = Head(c.todo).channel,
                      !.type = Head(c.todo).type,
                      !.used = Cardinality(channels[Head(c.todo).channel])]

\* the set iterator refuses to go on after the set has changed size
SizeChanged(it) ==
  IF it.orphan THEN TRUE ELSE Cardinality(channels[it.channel]) # it.used

\* one send_json call that has returned (ok) or raised, for inbound message msg
SendJson(msg, t, it, ok) ==
  [msg |-> msg, to |-> t, type |-> it.type, channel |-> it.channel, ok |-> ok]

\* lines 44-48: the iterator yields a member and send_json is awaited on it
IterSend(w, t) ==
  /\ conns[w].pc = "send"
  /\ IF conns[w].it.active THEN ~SizeChanged(conns[w].it)
     ELSE conns[w].todo # <<>> /\ HasMembers(Head(conns[w].todo).channel)
  /\ LET c  == conns[w]
         it == Iteration(c)
         td == IF c.it.active THEN c.todo ELSE Tail(c.todo)
     IN /\ t \in channels[it.channel] \ it.visited
        /\ IF conns[t].transport = "open"
           THEN /\ sends' = sends \cup {SendJson(c.msg, t, it, TRUE)}
                /\ conns' = [conns EXCEPT ![w].todo = td,
                                          ![w].it = [it EXCEPT !.visited = @ \cup {t}]]
           ELSE IF conns[t].transport = "closed"
           THEN /\ sends' = sends \cup {SendJson(c.msg, t, it, FALSE)}
                /\ conns' = [conns EXCEPT ![w].todo = td,
                                          ![w].it = [it EXCEPT !.visited = @ \cup {t},
                                                               !.dead = @ \cup {t}]]
           ELSE /\ conns' = [conns EXCEPT ![w].todo = td, ![w].it = it,
                                          ![w].pc = "blocked"]
                /\ UNCHANGED sends
  /\ UNCHANGED <<channels, user_map, inbound, dbVars, trustVars, signVars, boxVars>>

\* RuntimeError: Set changed size during iteration.  It is not a
\* WebSocketDisconnect, so it leaves the endpoint and the server closes the
\* connection; the socket stays in channels and user_map.
IterRaise(w) ==
  /\ conns[w].pc = "send"
  /\ conns[w].it.active
  /\ SizeChanged(conns[w].it)
  /\ conns' = [conns EXCEPT ![w].pc = "raised", ![w].transport = "closed", ![w].it = NoIter]
  /\ UNCHANGED <<channels, user_map, inbound, sends, dbVars, trustVars, signVars, boxVars>>

\* lines 49-50: the iteration is over and the failed members are discarded
IterFinish(w) ==
  /\ conns[w].pc = "send"
  /\ conns[w].it.active
  /\ ~SizeChanged(conns[w].it)
  /\ channels[conns[w].it.channel] \ conns[w].it.visited = {}
  /\ channels' = [channels EXCEPT ![conns[w].it.channel] = @ \ conns[w].it.dead]
  /\ conns' = [conns EXCEPT ![w].it = NoIter]
  /\ UNCHANGED <<user_map, inbound, sends, dbVars, trustVars, signVars, boxVars>>

\* the clients that have gone away or have stopped reading
Faulty == {w \in Sockets : conns[w].transport # "open" /\ conns[w].pc # "raised"}

\* the client goes away, or stops reading so that a send to it never returns
ClientClose(w) ==
  /\ conns[w].pc # "new"
  /\ conns[w].transport = "open"
  /\ Cardinality(Faulty) < MaxFaults
  /\ conns' = [conns EXCEPT ![w].transport = "closed"]
  /\ UNCHANGED <<channels, user_map, inbound, sends, dbVars, trustVars, signVars, boxVars>>

ClientStall(w) ==
  /\ conns[w].pc # "new"
  /\ conns[w].transport = "open"
  /\ Cardinality(Faulty) < MaxFaults
  /\ conns' = [conns EXCEPT ![w].transport = "stalled"]
  /\ UNCHANGED <<channels, user_map, inbound, sends, dbVars, trustVars, signVars, boxVars>>

(* --------------------- hmac.py: sign and verify ------------------------ *)
PayloadKeys   == {"a", "b"}
PayloadValues == {JStr("x"), JStr("y"), JNum(1), JNull}
KeyOrders     == {<<>>, <<"a">>, <<"b">>, <<"a", "b">>, <<"b", "a">>}
\* None, {} and the dicts over the keys a and b in either insertion order
Payloads ==
  {NoneDict} \cup
  {Dict([i \in 1..Len(ks) |-> <<ks[i], f[ks[i]]>>]) :
     ks \in KeyOrders, f \in [PayloadKeys -> PayloadValues]}

SignEvent(p) ==
  /\ payload' = p
  /\ signature' = sign_event(p)
  /\ candidate' = p
  /\ verified' = None
  /\ UNCHANGED <<dbVars, trustVars, hubVars, boxVars>>

VerifyEvent(p2) ==
  /\ signature # None
  /\ candidate' = p2
  /\ verified' = IF verify_event(p2, signature) THEN "True" ELSE "False"
  /\ UNCHANGED <<payload, signature, dbVars, trustVars, hubVars, boxVars>>

(* ----------------------- services/sandbox.py --------------------------- *)
\* Strings that the code searches or trims are sequences of characters.
SandboxResult(stdout, stderr, exit_code, timed_out) ==
  [stdout |-> stdout, stderr |-> stderr, exit_code |-> exit_code, timed_out |-> timed_out]

\* the list of lines 130-134, in its order
dangerous_patterns ==
  <<<<"i", "m", "p", "o", "r", "t", " ", "o", "s">>,
    <<"i", "m", "p", "o", "r", "t", " ", "s", "u", "b", "p", "r", "o", "c", "e", "s", "s">>,
    <<"i", "m", "p", "o", "r", "t", " ", "s", "y", "s">>,
    <<"i", "m", "p", "o", "r", "t", " ", "s", "h", "u", "t", "i", "l">>,
    <<"_", "_", "i", "m", "p", "o", "r", "t", "_", "_">>,
    <<"e", "v", "a", "l", "(">>,
    <<"e", "x", "e", "c", "(">>,
    <<"o", "p", "e", "n", "(">>,
    <<"i", "m", "p", "o", "r", "t", " ", "s", "o", "c", "k", "e", "t">>,
    <<"i", "m", "p", "o", "r", "t", " ", "h", "t", "t", "p">>,
    <<"i", "m", "p", "o", "r", "t", " ", "u", "r", "l", "l", "i", "b">>,
    <<"i", "m", "p", "o", "r", "t", " ", "r", "e", "q", "u", "e", "s", "t", "s">>>>

\* the pattern is at the start of the code
StartsWith(pattern, code) ==
  Len(pattern) <= Len(code) /\ SubSeq(code, 1, Len(pattern)) = pattern

\* `pattern in code`, line 137
In(pattern, code) ==
  \E i \in 1..(Len(code) - Len(pattern) + 1) : SubSeq(code, i, i + Len(pattern) - 1) = pattern

\* the first pattern of the list found in the code, 0 if none is
FirstPattern(code) ==
  LET found == {k \in 1..Len(dangerous_patterns) : In(dangerous_patterns[k], code)}
  IN IF found = {} THEN 0 ELSE CHOOSE k \in found : \A j \in found : k <= j

\* submitted programs; `listed` tells whether a pattern of the list occurs in
\* the text: print(7), a late `import os`, `eval(` inside a string literal,
\* `import  os` with two spaces, and a JavaScript call of fs.open
Codes ==
  {[text |-> <<"p", "r", "i", "n", "t", "(", "7", ")">>, listed |-> FALSE],
   [text |-> <<"x", " ", "=", " ", "1", "\n", "i", "m", "p", "o", "r", "t", " ", "o", "s">>, listed |-> TRUE],
   [text |-> <<"s", " ", "=", " ", "\"", "e", "v", "a", "l", "(", "\"">>, listed |-> TRUE],
   [text |-> <<"i", "m", "p", "o", "r", "t", " ", " ", "o", "s">>, listed |-> FALSE],
   [text |-> <<"f", "s", ".", "o", "p", "e", "n", "(", "1", ")">>, listed |-> TRUE]}

\* the processes that one execute_code call starts: the `docker info` probe,
\* the `docker run` client with its container, the `docker kill` command and
\* the direct child of the fallback strategy
Processes == {"probe", "container", "killer", "child"}
NoProc == [status |-> "none", returncode |-> 0, stdout |-> <<>>]
Outputs == {<<>>, <<"7", "\n">>}

\* one execute_code call: pc is "probe", "communicate" or "kill_wait" at the
\* awaits, `deadline` tells whether that await is inside asyncio.wait_for,
\* `timed` whether the wait_for of communicate has timed out
NoRun == [pc |-> "idle", code |-> <<>>, listed |-> FALSE, language |-> None,
          strategy |-> None, deadline |-> FALSE, timed |-> FALSE,
          result |-> SandboxResult(<<>>, <<>>, 0, FALSE)]

Main == IF run.strategy = "docker" THEN "container" ELSE "child"

\* lines 184-190 and 38-45: execute_code calls _check_docker_available, which
\* starts `docker info`; if that raises, the probe answers False
execute_code(code, language, spawned) ==
  /\ run.pc = "idle"
  /\ ~grade.valid
  /\ run' = [NoRun EXCEPT !.code = code.text, !.listed = code.listed,
                          !.language = language,
                          !.pc = IF spawned THEN "probe" ELSE "subprocess",
                          !.strategy = IF spawned THEN None ELSE "subprocess",
                          !.deadline = spawned]
  /\ procs' = IF spawned THEN [procs EXCEPT !["probe"] = [NoProc EXCEPT !.status = "running"]] ELSE procs
  /\ UNCHANGED <<grade, dbVars, trustVars, signVars, hubVars>>

\* lines 46-49: wait_for(proc.wait(), timeout=5) returns, and the answer is
\* returncode == 0, or it times out and the answer is False
check_docker_available(outcome) ==
  /\ run.pc = "probe"
  /\ procs["probe"].status = "running"
  /\ procs' = IF outcome = "timeout" THEN procs
              ELSE [procs EXCEPT !["probe"] =
                      [@ EXCEPT !.status = "exited",
                                !.returncode = IF outcome = "available" THEN 0 ELSE 1]]
  /\ run' = [run EXCEPT !.pc = IF outcome = "available" THEN "docker" ELSE "subprocess",
                        !.strategy = IF outcome = "available" THEN "docker" ELSE "subprocess",
                        !.deadline = FALSE]
  /\ UNCHANGED <<grade, dbVars, trustVars, signVars, hubVars>>

\* lines 83-88 and 120-121: `docker run` is started, or starting it raises
execute_code_docker(spawned) ==
  /\ run.pc = "docker"
  /\ IF spawned
     THEN /\ procs' = [procs EXCEPT !["container"] = [NoProc EXCEPT !.status = "running"]]
          /\ run' = [run EXCEPT !.pc = "communicate", !.deadline = TRUE]
     ELSE /\ run' = [run EXCEPT !.pc = "returned",
                                !.result = SandboxResult(<<>>, <<"error">>, 1, FALSE)]
          /\ UNCHANGED procs
  /\ UNCHANGED <<grade, dbVars, trustVars, signVars, hubVars>>

\* lines 130-160 and 180-181: the scan of the denylist, then the child is
\* started, or starting it raises
execute_code_subprocess(spawned) ==
  /\ run.pc = "subprocess"
  /\ LET k == FirstPattern(run.code)
     IN IF k # 0
        THEN /\ run' = [run EXCEPT !.pc = "returned",
                                   !.result = SandboxResult(<<>>,
                                      <<"Blocked: '">> \o dangerous_patterns[k]
                                        \o <<"' is not allowed in sandbox mode">>, 1, FALSE)]
             /\ UNCHANGED procs
        ELSE IF spawned
        THEN /\ procs' = [procs EXCEPT !["child"] = [NoProc EXCEPT !.status = "running"]]
             /\ run' = [run EXCEPT !.pc = "communicate", !.deadline = TRUE]
        ELSE /\ run' = [run EXCEPT !.pc = "returned",
                                   !.result = SandboxResult(<<>>, <<"error">>, 1, FALSE)]
             /\ UNCHANGED procs
  /\ UNCHANGED <<grade, dbVars, trustVars, signVars, hubVars>>

\* a process ends by itself; a `docker kill` that succeeds ends the container
Exit(p, returncode, stdout) ==
  /\ procs[p].status = "running"
  /\ p = "probe" => run.pc # "probe"
  /\ p # Main => stdout = <<>>
  /\ procs' = [x \in Processes |->
                 IF x = p
                 THEN [status |-> "exited", returncode |-> returncode, stdout |-> stdout]
                 ELSE IF p = "killer" /\ returncode = 0 /\ x = "container"
                           /\ procs[x].status = "running"
                 THEN [procs[x] EXCEPT !.status = "exited", !.returncode = 137]
                 ELSE procs[x]]
  /\ UNCHANGED <<run, grade, dbVars, trustVars, signVars, hubVars>>

\* lines 90-102 and 162-174: communicate has returned within the timeout
Communicated ==
  /\ run.pc = "communicate"
  /\ procs[Main].status = "exited"
  /\ run' = [run EXCEPT !.pc = "returned", !.deadline = FALSE,
                        !.result = SandboxResult(procs[Main].stdout, <<>>,
                                                 procs[Main].returncode, FALSE)]
  /\ UNCHANGED <<procs, grade, dbVars, trustVars, signVars, hubVars>>

\* lines 104-111 and 176-178: wait_for raises TimeoutError.  The docker
\* strategy starts `docker kill` (which may raise inside the except block) and
\* awaits its end; the fallback kills the child and returns
Timeout(spawned) ==
  /\ run.pc = "communicate"
  /\ procs[Main].status = "running"
  /\ IF run.strategy = "docker"
     THEN IF spawned
          THEN /\ procs' = [procs EXCEPT !["killer"] = [NoProc EXCEPT !.status = "running"]]
               /\ run' = [run EXCEPT !.pc = "kill_wait", !.timed = TRUE, !.deadline = FALSE]
          ELSE /\ run' = [run EXCEPT !.pc = "raised", !.timed = TRUE, !.deadline = FALSE]
               /\ UNCHANGED procs
     ELSE /\ procs' = [procs EXCEPT !["child"] =
                         [@ EXCEPT !.status = "exited", !.returncode = -9]]
          /\ run' = [run EXCEPT !.pc = "returned", !.timed = TRUE, !.deadline = FALSE,
                                !.result = SandboxResult(<<>>, <<"Execution timed out">>,
                                                         124, TRUE)]
  /\ UNCHANGED <<grade, dbVars, trustVars, signVars, hubVars>>

\* lines 111-117: kill_proc.wait() has returned
Killed ==
  /\ run.pc = "kill_wait"
  /\ procs["killer"].status = "exited"
  /\ run' = [run EXCEPT !.pc = "returned",
                        !.result = SandboxResult(<<>>, <<"Execution timed out">>, 124, TRUE)]
  /\ UNCHANGED <<procs, grade, dbVars, trustVars, signVars, hubVars>>

\* the task that runs execute_code is cancelled at one of its awaits:
\* CancelledError is caught by none of the except clauses
Cancel ==
  /\ run.pc \in {"probe", "communicate", "kill_wait"}
  /\ run' = [run EXCEPT !.pc = "cancelled", !.deadline = FALSE]
  /\ UNCHANGED <<procs, grade, dbVars, trustVars, signVars, hubVars>>

(* ------------------ services/sandbox.py: run_test_cases ---------------- *)
\* str.strip()
RECURSIVE Strip(_)
Strip(t) ==
  LET whitespace == {" ", "\n", "\t"}
  IN IF t = <<>> THEN t
     ELSE IF Head(t) \in whitespace THEN Strip(Tail(t))
     ELSE IF t[Len(t)] \in whitespace THEN Strip(SubSeq(t, 1, Len(t) - 1))
     ELSE t

\* tc.get(key, "")
TcGet(tc, key) == IF key \in DOMAIN tc THEN tc[key] ELSE <<>>

\* round(x, 1) of x = passed / total * 100, in tenths
RoundTenths(passed, total) == (2000 * passed + total) \div (2 * total)

\* lines 202-206 for one test case and the result of its execution
test_passed(tc, result) ==
  /\ Strip(result.stdout) = Strip(TcGet(tc, "expected_output"))
  /\ result.exit_code = 0
  /\ ~result.timed_out

\* lines 193-227: results[i] is what execute_code returned for test_cases[i];
\* the score is in tenths
run_test_cases(test_cases, results) ==
  LET total  == Len(test_cases)
      passed == Cardinality({i \in 1..total : test_passed(test_cases[i], results[i])})
  IN [total |-> total, passed |-> passed, failed |-> total - passed,
      score |-> IF total > 0 THEN RoundTenths(passed, total) ELSE 0]

\* test cases with the key expected_output or the key expected
TestCases ==
  {[input |-> <<"3", "\n", "4", "\n">>, expected_output |-> <<"7", "\n">>],
   [input |-> <<"3", "\n", "4", "\n">>, expected_output |-> <<"8">>],
   [input |-> <<"3", "\n", "4", "\n">>, expected |-> <<"7", "\n">>]}
\* what an execution can return for a case
Outcomes ==
  {SandboxResult(<<"7", "\n">>, <<>>, 0, FALSE), SandboxResult(<<" ", "7">>, <<>>, 0, FALSE),
   SandboxResult(<<"7", "\n">>, <<>>, 1, FALSE), SandboxResult(<<>>, <<>>, 0, FALSE),
   SandboxResult(<<>>, <<"Execution timed out">>, 124, TRUE)}

NoGrade == [valid |-> FALSE, test_cases |-> <<>>, results |-> <<>>,
            summary |-> run_test_cases(<<>>, <<>>)]

\* one call of the service is followed: an execution or a grading
RunTestCases(test_cases, results) ==
  /\ run.pc = "idle"
  /\ ~grade.valid
  /\ grade' = [valid |-> TRUE, test_cases |-> test_cases, results |-> results,
               summary |-> run_test_cases(test_cases, results)]
  /\ UNCHANGED <<run, procs, dbVars, trustVars, signVars, hubVars>>

(* --------------------------- specifications ---------------------------- *)
\* One attempt has been started by student s1 (create_attempt, lines 89-97).
InitDb ==
  /\ attempts = [i \in AttemptIds |-> IF i = 1 THEN NewAttempt("s1", "e1") ELSE NoAttempt]
  /\ events = EmptyBag
  /\ heartbeats = [i \in AttemptIds |-> NoBeat]
  /\ session_states = [i \in AttemptIds |-> NoState]
  /\ now = 0
  /\ reqs = [r \in Slots |-> NoReq]
  /\ last = NoReq
  /\ nreq = 0
  /\ serial_score = [i \in AttemptIds |-> DefaultTrustScore * Scale]

InitTrustIdle ==
  /\ scores = [k \in Dimensions |-> 100 * Scale]
  /\ computed = NoResult
  /\ last_penalty = 0
  /\ napplied = 0

InitSign ==
  /\ payload = NoneDict
  /\ signature = None
  /\ candidate = NoneDict
  /\ verified = None

InitHub ==
  /\ channels = [c \in {} |-> {}]
  /\ user_map = [w \in {} |-> NoInfo]
  /\ conns = [w \in Sockets |-> NoConn]
  /\ inbound = <<>>
  /\ sends = {}

InitSandbox ==
  /\ run = NoRun
  /\ procs = [p \in Processes |-> NoProc]
  /\ grade = NoGrade

Init ==
  /\ InitDb
  /\ InitTrustIdle
  /\ InitSign
  /\ InitHub
  /\ InitSandbox

Next ==
  \/ \E r \in Slots, c \in Callers, tv \in BOOLEAN, fs \in BOOLEAN, b \in BatteryInputs :
        receive_heartbeat(r, c[1], c[2], tv, fs, b)
  \/ \E r \in Slots : heartbeat_penalties(r)
  \/ \E r \in Slots, c \in Callers, t \in CameraTypes, cf \in Confidences :
        receive_camera_event(r, c[1], c[2], t, cf)
  \/ \E r \in Slots, c \in Callers, t \in AudioTypes :
        receive_audio_event(r, c[1], c[2], t, 10)
  \/ \E r \in Slots, c \in Callers, t \in BehaviorTypes :
        receive_behavior_event(r, c[1], c[2], t, 10)
  \/ \E r \in Slots, u \in Users, e \in Exams : create_attempt(r, u, e)
  \/ \E r \in Slots, u \in Users, a \in {1, 2} : end_attempt(r, u, a)
  \/ \E r \in Slots, d \in LogPayloads :
        \E sig \in LogSignatures(d) : log_event(r, "s1", 1, "tab_switch", d, 10, sig)
  \/ \E r \in Slots : Commit(r)
  \/ \E d \in TickSteps : Tick(d)

Spec == Init /\ [][Next]_vars

InitTrust ==
  /\ InitDb
  /\ scores \in [Dimensions -> InitDims]
  /\ computed = NoResult
  /\ last_penalty = 0
  /\ napplied = 0
  /\ InitSign
  /\ InitHub
  /\ InitSandbox

NextTrust ==
  \/ \E t \in PenaltyEventTypes : ApplyViolationPenalty(t)
  \/ ComputeTrustScore
  \/ \E t \in FlatEventTypes : GetViolationPenalty(t)

SpecTrust == InitTrust /\ [][NextTrust]_vars

InitSigning ==
  /\ InitDb
  /\ InitTrustIdle
  /\ InitSign
  /\ InitHub
  /\ InitSandbox

NextSign ==
  \/ \E p \in Payloads : SignEvent(p)
  \/ \E p2 \in Payloads : VerifyEvent(p2)

SpecSign == InitSigning /\ [][NextSign]_vars

NextHub ==
  \/ \E w \in Sockets, login \in Logins, accepted \in BOOLEAN : Connect(w, login, accepted)
  \/ \E w \in Sockets, m \in Messages : Receive(w, m)
  \/ \E w \in Sockets : Disconnect(w)
  \/ \E w \in Sockets : Return(w)
  \/ \E w \in Sockets : SendToNobody(w)
  \/ \E w \in Sockets, t \in Sockets : IterSend(w, t)
  \/ \E w \in Sockets : IterRaise(w)
  \/ \E w \in Sockets : IterFinish(w)
  \/ \E w \in Sockets : ClientClose(w)
  \/ \E w \in Sockets : ClientStall(w)

SpecHub == InitSigning /\ [][NextHub]_vars

\* the manager's methods called in any order with the channels of exam e1
ManagerChannels == {"exam:a1", "teacher:e1", "teacher_feed:e1"}

NextManager ==
  \/ \E ws \in Sockets, channel \in ManagerChannels, user_info \in {l \in Logins : l.user_id \in {"s1", "t1"}} :
        connect(ws, channel, user_info)
  \/ \E ws \in Sockets, channel \in ManagerChannels : disconnect(ws, channel)

SpecManager == InitSigning /\ [][NextManager]_vars

NextSandbox ==
  \/ \E code \in Codes, language \in {"python", "javascript"}, spawned \in BOOLEAN :
        execute_code(code, language, spawned)
  \/ \E outcome \in {"available", "unavailable", "timeout"} : check_docker_available(outcome)
  \/ \E spawned \in BOOLEAN : execute_code_docker(spawned)
  \/ \E spawned \in BOOLEAN : execute_code_subprocess(spawned)
  \/ \E p \in Processes, returncode \in {0, 1}, stdout \in Outputs : Exit(p, returncode, stdout)
  \/ Communicated
  \/ \E spawned \in BOOLEAN : Timeout(spawned)
  \/ Killed
  \/ Cancel
  \/ \E n \in 0..MaxCases :
        \E test_cases \in [1..n -> TestCases], results \in [1..n -> Outcomes] :
          RunTestCases(test_cases, results)

SpecSandbox == InitSigning /\ [][NextSandbox]_vars

(* ------------------------------- claims -------------------------------- *)
Quiescent == \A r \in Slots : reqs[r].pc = "idle"
Owns(u, a) == attempts[a].exists /\ attempts[a].user_id = u
Records == {reqs[r] : r \in Slots} \cup {last}

\* C1: when the penalty-bearing requests on an attempt have all been committed,
\* its trust_score is the score obtained by applying their penalties one after
\* the other: no penalty is lost to an interleaving.
C1_NoLostPenalty ==
  Quiescent => \A a \in AttemptIds :
                 attempts[a].exists => attempts[a].trust_score = serial_score[a]

\* C2: at most one active Attempt exists per (user, exam) pair, and a
\* create_attempt that inserts a row does so only while the pair has no active
\* attempt.
C2_OneActiveAttempt ==
  /\ \A u \in Users, e \in Exams : Cardinality(ActiveAttempts(u, e)) <= 1
  /\ \A r \in Slots : (reqs[r].kind = "create" /\ reqs[r].insert)
                         => ActiveAttempts(reqs[r].user, reqs[r].exam) = {}

\* C3: the trust_score of every attempt stays within [0,100].
C3_TrustScoreInRange ==
  \A a \in AttemptIds :
    attempts[a].exists =>
      (attempts[a].trust_score >= 0 /\ attempts[a].trust_score <= 100 * Scale)

\* C4: no step of any ingestion path raises the trust_score of an attempt.
C4_ScoreNeverRises ==
  [][\A a \in AttemptIds :
       attempts[a].exists => attempts'[a].trust_score <= attempts[a].trust_score]_vars

\* C5: the stored risk_level of every attempt is the tier of its stored
\* trust_score (>= 80 low, >= 60 medium, >= 40 high, else critical).
C5_RiskLevelMatchesScore ==
  \A a \in AttemptIds :
    attempts[a].exists => attempts[a].risk_level = RiskTier(attempts[a].trust_score, Scale)

WeightedSum(d) ==
    20 * d["behavior_stability"] + 15 * d["typing_consistency"]
  + 20 * d["coding_authenticity"] + 20 * d["identity_stability"]
  + 10 * d["environment_integrity"] + 15 * d["intervention_performance"]

DimensionsInRange(d) == \A k \in Dimensions : d[k] >= 0 /\ d[k] <= 100 * Scale

\* C6 (as stated): after any sequence of apply_violation_penalty calls every
\* dimension is in [0,100] and compute_trust_score returns overall equal to the
\* weighted sum of the six dimensions.
C6_OverallEqualsWeightedSum ==
  /\ DimensionsInRange(scores)
  /\ computed.valid => computed.overall * 100 = WeightedSum(computed.scores)

\* C6 (amended): after any sequence of apply_violation_penalty calls every
\* dimension is in [0,100] and compute_trust_score returns the weighted sum of
\* the six dimensions rounded to two decimals, at most 0.005 away from it.
C6_OverallIsRoundedWeightedSum ==
  /\ DimensionsInRange(scores)
  /\ computed.valid =>
       /\ DimensionsInRange(computed.scores)
       /\ computed.overall * 100 - WeightedSum(computed.scores) <= 50
       /\ WeightedSum(computed.scores) - computed.overall * 100 <= 50

\* a penalty was clamped at 0 and the overall of the resulting vector, which
\* is not a whole number of hundredths, has been computed
C6_Witness ==
  /\ napplied >= 1
  /\ computed.valid /\ computed.scores = scores
  /\ \E k \in Dimensions : scores[k] = 0
  /\ WeightedSum(scores) % 100 # 0

\* C7: a heartbeat of the attempt's owner that detects several violations
\* completes normally and lowers the trust score.
C7_MultiViolationHeartbeatCompletes ==
  (/\ last.kind = "heartbeat"
   /\ Len(last.violations) >= 2
   /\ Owns(last.user, last.attempt))
     => (last.status = "ok" /\ last.applied /\ last.penalty > 0)

HasViolation(q, type) == \E i \in 1..Len(q.violations) : q.violations[i] = type

\* C8: a finished heartbeat reports a heartbeat_gap violation and has recorded a
\* heartbeat_gap Event if and only if a previous heartbeat was known and the
\* time since it exceeds HEARTBEAT_TOLERANCE; the reported gap is that time
\* (to the tenth of a second).
C8_HeartbeatGapIff ==
  last.kind = "heartbeat" =>
    LET exceeded == last.had_last /\ last.gap > HEARTBEAT_TOLERANCE * TimeScale
        reported == last.status = "ok" /\ HasViolation(last, "heartbeat_gap")
        recorded == BagIn(Event(last.attempt, "heartbeat_gap", gap_data(last.gap), 10, None), events)
    IN /\ exceeded <=> (reported /\ recorded)
       /\ exceeded => (/\ last.resp_gap * 10 - last.gap <= 5
                       /\ last.gap - last.resp_gap * 10 <= 5)

\* C9: an event of a type that the handler's penalty table does not list, sent
\* by the attempt's owner with a confidence in [0,1], lowers the trust score by
\* a strictly positive penalty in the camera, audio and behavior handlers.
C9_UnknownTypePenalised ==
  \A q \in Records :
    (/\ q.kind \in {"camera", "audio", "behavior"}
     /\ q.pc \in {"flush", "done"}
     /\ q.conf <= 10
     /\ Owns(q.user, q.attempt)
     /\ \/ q.kind = "camera" /\ q.etype \notin DOMAIN camera_risk_map
        \/ q.kind = "audio" /\ q.etype \notin DOMAIN audio_risk_map
        \/ q.kind = "behavior" /\ q.etype \notin DOMAIN behavior_risk_map)
      => (q.applied /\ q.penalty > 0)

\* C10: of two camera events of the same penalised type on the same score, the
\* one with the lower confidence (both in [0,1]) is penalised no more than the
\* one with the higher confidence.
C10_LowConfidenceCostsNoMore ==
  \A x \in Records, y \in Records :
    (/\ x.kind = "camera" /\ y.kind = "camera"
     /\ x.applied /\ y.applied
     /\ x.etype = y.etype /\ x.seen_score = y.seen_score
     /\ x.conf < y.conf /\ y.conf <= 10)
      => x.penalty <= y.penalty

SameItems(p, q) ==
  /\ p.none = q.none
  /\ Keys(p) = Keys(q)
  /\ \A k \in Keys(p) : Get(p, k) = Get(q, k)

\* C13: the signature of a payload verifies against that payload; a payload
\* with the same items in another key order has the same signature and
\* verifies; a payload whose serialisation differs does not verify.
C13_SignVerifyRoundTrip ==
  signature # None =>
    /\ verify_event(payload, signature)
    /\ SameItems(candidate, payload) =>
         /\ sign_event(candidate) = signature
         /\ verified \in {None, "True"}
    /\ json_dumps(candidate) # json_dumps(payload) => verified \in {None, "False"}

\* the same two items signed in one key order and verified in the other
C13_Witness ==
  /\ payload = Dict(<<<<"b", JNum(1)>>, <<"a", JStr("x")>>>>)
  /\ candidate = Dict(<<<<"a", JStr("x")>>, <<"b", JNum(1)>>>>)
  /\ json_dumps(payload) = "{\"a\": \"x\", \"b\": 1}"
  /\ verified = "True"

\* C11: a log_event request whose hmac_signature is not sign_event of its
\* event_data ends in an error, and its Event is neither staged nor stored.
C11_BadSignatureRejected ==
  \A q \in Records :
    (/\ q.kind = "log_event"
     /\ q.hmac_signature # None
     /\ q.hmac_signature # sign_event(q.event_data))
    => /\ q.pending = EmptyBag
       /\ q.pc = "done" => q.status = "error"
       /\ ~BagIn(Event(q.attempt, q.etype, q.event_data, q.conf, q.hmac_signature), events)

\* C12: the signature of every stored Event that has one is the signature of
\* the stored event_data.
C12_StoredSignatureVerifies ==
  \A e \in BagToSet(events) :
    e.hmac_signature # None => verify_event(e.event_data, e.hmac_signature)

(* --------------------------- claims: the hub --------------------------- *)
\* the exam that each attempt belongs to (Attempt.exam_id)
exam_of == [a1 |-> "e1", a2 |-> "e1"]

Entries == 1..Len(inbound)
Sender(i) == conns[inbound[i].from]
\* the branch entered for inbound[i] has made its calls and returned
Completed(i) == Sender(i).msg # i \/ Sender(i).pc \in {"receive", "closed"}
\* ... or has been left by an exception
Raised(i) == Sender(i).msg = i /\ Sender(i).pc = "raised"
Members(ch, c) == IF c \in DOMAIN ch THEN ch[c] ELSE {}
\* the members of a channel from the receipt of inbound[i] until now whose
\* transport is open
Present(i, c) ==
  {t \in Members(inbound[i].seen, c) \cap Members(channels, c) : conns[t].transport = "open"}
Delivered(i, t) == \E d \in sends : d.msg = i /\ d.to = t /\ d.ok
FromStudentSession(i) ==
  Sender(i).info.session_type = "exam" /\ Sender(i).info.role = "student"

\* C14: once the branch of a violation_event or trust_score_update received
\* from a student session has returned, every observer of the teacher feed of
\* the student's exam and every observer of admin:global has been sent a message.
C14_FansOutToTeachersAndAdmins ==
  \A i \in Entries :
    (/\ inbound[i].type \in {"violation_event", "trust_score_update"}
     /\ FromStudentSession(i)
     /\ Completed(i))
    => \A t \in Present(i, "teacher_feed:" \o exam_of[Sender(i).info.session_id])
                  \cup Present(i, "admin:global") : Delivered(i, t)

\* C15: once the endpoint of a disconnected student session has returned, every
\* teacher on the teacher feed of the exam of the student's attempt has been
\* sent a student_disconnect message.
C15_DisconnectReachesTeachers ==
  \A i \in Entries :
    (/\ inbound[i].type = "WebSocketDisconnect"
     /\ FromStudentSession(i)
     /\ Completed(i))
    => \A t \in Present(i, "teacher_feed:" \o exam_of[Sender(i).info.session_id]) :
         \E d \in sends : d.msg = i /\ d.to = t /\ d.ok /\ d.type = "student_disconnect"

\* C16: an exam_paused or exam_terminated message is delivered only for a
\* force_pause or force_terminate received on a connection whose role is
\* teacher or admin.
C16_OnlyStaffPauseOrTerminate ==
  \A d \in sends :
    (d.ok /\ d.type \in {"exam_paused", "exam_terminated"})
    => /\ inbound[d.msg].type \in {"force_pause", "force_terminate"}
       /\ Sender(d.msg).info.role \in {"teacher", "admin"}

\* C17: every send made for an intervention, force_pause or force_terminate
\* goes to a socket of the channel exam:{attempt_id} of the message, a socket
\* that is in no other channel.
C17_CommandsReachOnlyTheExamChannel ==
  \A d \in sends :
    inbound[d.msg].type \in {"intervention", "force_pause", "force_terminate"}
    => /\ d.channel = "exam:" \o inbound[d.msg].attempt_id
       /\ conns[d.to].info.session_type = "exam"
       /\ conns[d.to].info.session_id = inbound[d.msg].attempt_id
       /\ \A c \in DOMAIN channels : d.to \in channels[c] => c = d.channel

\* a teacher's force_terminate has reached the student while the teacher feed
\* and admin:global have members
C17_Witness ==
  /\ \E d \in sends : /\ d.ok
                      /\ d.type = "exam_terminated"
                      /\ Sender(d.msg).info.role = "teacher"
                      /\ Completed(d.msg)
  /\ HasMembers("teacher_feed:e1")
  /\ HasMembers("admin:global")

\* C18: no endpoint is left suspended at a send_json that does not return; an
\* endpoint suspended there sends to no further member of the channel and
\* reads no further inbound message.
C18_SlowConsumerStallsNobody ==
  \A w \in Sockets : conns[w].pc # "blocked"

\* a send_json of the calls made for inbound[i] failed on a closed transport
MetClosed(i) == \E d \in sends : d.msg = i /\ ~d.ok

\* C19: send_to_channel calls that meet a closed observer raise nothing; once
\* they have returned every live member of each channel has been sent the
\* message, and no member whose send failed is still in the channel.
C19_BroadcastDropsTheDead ==
  \A i \in Entries :
    MetClosed(i) =>
      /\ ~Raised(i)
      /\ Completed(i) =>
           /\ \A k \in 1..Len(inbound[i].route) :
                \A t \in Present(i, inbound[i].route[k].channel) : Delivered(i, t)
           /\ \A d \in sends :
                (d.msg = i /\ ~d.ok) => d.to \notin Members(channels, d.channel)

\* C20: when the send_to_channel calls made for an inbound message are over,
\* each observer that was in the channel during the whole call has been the
\* target of exactly one send_json of that call.
C20_OneSendPerObserver ==
  \A i \in Entries :
    (Completed(i) \/ Raised(i)) =>
      \A k \in 1..Len(inbound[i].route) :
        LET c == inbound[i].route[k].channel
        IN \A t \in Members(inbound[i].seen, c) \cap Members(channels, c) :
             Cardinality({d \in sends : d.msg = i /\ d.to = t /\ d.channel = c}) = 1

(* ---------------------- claims: the manager's methods ------------------ *)
\* C21: a disconnect(observer, channel) for an observer that is not a member
\* of the channel changes neither the channels nor user_map, so the sessions
\* listed by get_active_sessions are the same after it.
C21_AbsentLeaveIsNoOp ==
  [][\A ws \in Sockets, channel \in ManagerChannels :
       (ws \notin Members(channels, channel) /\ disconnect(ws, channel))
       => /\ UNCHANGED <<channels, user_map>>
          /\ get_active_sessions' = get_active_sessions]_vars

(* ----------------------- claims: the hub, continued -------------------- *)
\* C28: the send_to_channel calls made for an inbound message raise nothing
\* whatever joins or leaves the channel while a send is awaited, and once they
\* have returned every observer that was a member of the channel from the
\* receipt of the message until now has been sent the message.
C28_ChurnDoesNotBreakBroadcast ==
  \A i \in Entries :
    /\ ~Raised(i)
    /\ Completed(i) =>
         \A k \in 1..Len(inbound[i].route) :
           \A t \in Present(i, inbound[i].route[k].channel) : Delivered(i, t)

\* C30: whenever no send_to_channel call is in progress, every key of channels
\* maps to a non-empty set, and the sockets of user_map are exactly the sockets
\* that are members of at least one channel.
C30_HubStateConsistent ==
  (\A w \in Sockets : ~conns[w].it.active) =>
    /\ \A c \in DOMAIN channels : channels[c] # {}
    /\ DOMAIN user_map = UNION {channels[c] : c \in DOMAIN channels}

(* -------------------- claims: monitoring, continued -------------------- *)
\* C26: a heartbeat for an attempt of another user changes nothing of the
\* attempt: the last-heartbeat time and the session state are unchanged by
\* the handler, and its commit changes neither the attempt row nor the events.
C26_ForeignHeartbeatChangesNothing ==
  [][/\ \A r \in Slots, c \in Callers, tv \in BOOLEAN, fs \in BOOLEAN, b \in BatteryInputs :
          (/\ attempts[c[2]].exists
           /\ ~Owns(c[1], c[2])
           /\ receive_heartbeat(r, c[1], c[2], tv, fs, b))
          => UNCHANGED <<heartbeats, session_states>>
     /\ \A r \in Slots :
          (/\ reqs[r].kind = "heartbeat"
           /\ attempts[reqs[r].attempt].exists
           /\ ~Owns(reqs[r].user, reqs[r].attempt)
           /\ heartbeat_penalties(r) \/ Commit(r))
          => UNCHANGED <<attempts, events, heartbeats, session_states>>]_vars

\* C27: when a heartbeat that arrived more than HEARTBEAT_TOLERANCE seconds
\* after the previous one of its attempt is over, the session state of the
\* attempt is paused, and the response, if there is one, reports paused = true.
C27_GapPausesTheSession ==
  (/\ last.kind = "heartbeat"
   /\ last.pc = "done"
   /\ last.had_last
   /\ last.gap > HEARTBEAT_TOLERANCE * TimeScale)
  => /\ session_states[last.attempt].paused
     /\ last.status = "ok" => last.resp_paused

\* C29: the commit of a heartbeat, camera, audio or behavior request that
\* loaded the attempt with status completed or terminated leaves trust_score
\* and risk_level as they were, and the commit of an end_attempt that loaded
\* such an attempt leaves end_time as it was.
C29_FinishedAttemptIsFrozen ==
  [][\A r \in Slots :
       (/\ reqs[r].found
        /\ reqs[r].seen_status \in {"completed", "terminated"}
        /\ Commit(r))
       => LET old == attempts[reqs[r].attempt]
              new == attempts'[reqs[r].attempt]
          IN /\ reqs[r].kind \in {"heartbeat", "camera", "audio", "behavior"}
                  => /\ new.trust_score = old.trust_score
                     /\ new.risk_level = old.risk_level
             /\ reqs[r].kind = "end" => new.end_time = old.end_time]_vars

(* --------------------------- claims: the sandbox ----------------------- *)
\* C22: no exception leaves execute_code; every await of the call is under a
\* deadline, so that nothing a process, the container or the kill command does
\* can leave the caller pending; and a call that returns after its run
\* exceeded the timeout returns timed_out = true with exit_code 124.
C22_AlwaysADefiniteResult ==
  /\ run.pc # "raised"
  /\ run.pc \in {"probe", "communicate", "kill_wait"} => run.deadline
  /\ (run.pc = "returned" /\ run.timed)
       => run.result.timed_out /\ run.result.exit_code = 124

\* C23: when execute_code has returned, raised or been cancelled, none of the
\* processes it started (probe, container, kill command, child) is running.
C23_NothingLeftRunning ==
  run.pc \in {"returned", "raised", "cancelled"}
  => \A p \in Processes : procs[p].status # "running"

\* C24: run_test_cases reports total = the number of cases, passed = the
\* number of cases whose trimmed stdout equals the trimmed expected output of
\* the case (given under the key expected or expected_output) with exit code
\* 0 and no timeout, failed = total - passed, and score = passed/total*100 to
\* the nearest tenth (0 for no cases).
C24_GradingCountsMatchingCases ==
  grade.valid =>
    LET tcs == grade.test_cases
        given(tc) == IF "expected" \in DOMAIN tc THEN tc["expected"]
                     ELSE tc["expected_output"]
        ok == {i \in 1..Len(tcs) :
                 /\ Strip(grade.results[i].stdout) = Strip(given(tcs[i]))
                 /\ grade.results[i].exit_code = 0
                 /\ ~grade.results[i].timed_out}
        g == grade.summary
    IN /\ g.total = Len(tcs)
       /\ g.passed = Cardinality(ok)
       /\ g.passed + g.failed = g.total
       /\ g.total = 0 => g.score = 0
       /\ g.total > 0 => /\ 2 * (g.score * g.total - 1000 * g.passed) <= g.total
                         /\ 2 * (1000 * g.passed - g.score * g.total) <= g.total

\* C25: in the fallback strategy a program in which a denylisted pattern
\* occurs is never started as a child process, whatever the language, and
\* the call returns at once with exit_code 1, timed_out false and a stderr
\* that begins with "Blocked".
C25_DenylistedCodeNeverStarts ==
  (run.strategy = "subprocess" /\ run.listed)
  => /\ procs["child"].status = "none"
     /\ run.pc \in {"subprocess", "returned"}
     /\ run.pc = "returned"
          => /\ run.result.exit_code = 1
             /\ ~run.result.timed_out
             /\ Head(run.result.stderr) = "Blocked: '"

\* a JavaScript program with a denylisted pattern in its middle was refused
C25_Witness ==
  /\ run.pc = "returned"
  /\ run.strategy = "subprocess"
  /\ run.listed
  /\ run.language = "javascript"
  /\ ~\E k \in 1..Len(dangerous_patterns) : StartsWith(dangerous_patterns[k], run.code)
  /\ Head(run.result.stderr) = "Blocked: '"
====
